---- MODULE Spec2Model ----
(***************************************************************************)
(* Load exit-order optimization engine of load-organiser                   *)
(* (frontend/src/utils/loadOptimization.ts): calculateExitOrder and        *)
(* optimizeCapacity, applied to rosters of jumpers.                        *)
(*                                                                         *)
(* Representation.  An optional field of a Jumper (fallRate,               *)
(* requiresInstructor, instructorId) is a set: {} when the property is     *)
(* undefined, {v} when it holds v.  The LoadOptimizer component           *)
(* (runOptimization, Reset, Apply) is modelled by ComponentSpec.           *)
(***************************************************************************)
EXTENDS Integers, Sequences, FiniteSets, TLC

VARIABLES jumpers, pc, load, alloc, score, currentJumpers, converted,
          optimization, isOptimizing, inFlight, applied

\* the state of the LoadOptimizer component besides its roster
componentVars == <<optimization, isOptimizing, inFlight, applied>>

vars == <<jumpers, pc, load, alloc, score, currentJumpers, converted,
          componentVars>>

----------------------------------------------------------------------------
(* Bounds of the explored inputs *)

\* rosters of up to MaxMixed freely chosen jumpers ...
MaxMixed == 3
\* ... extended with repeat bookings of the last profile up to MaxRoster
MaxRoster == 10
\* seat counts range over -MaxNegSlots .. MaxSlots
MaxSlots == 4
MaxNegSlots == 2
\* the component is handed up to MaxEntries roster entries
MaxEntries == 3

----------------------------------------------------------------------------
(* Jumper profiles a caller can put on a roster (interface Jumper) *)

Profile(jt, el, w, alt, fr, ri, ins) ==
  [jumpType |-> jt, experienceLevel |-> el, weight |-> w, exitAltitude |-> alt,
   fallRate |-> fr, requiresInstructor |-> ri, instructorId |-> ins]

\* "wingsuit" and "novice" stand for values outside the declared unions
Profiles ==
  << Profile("tandem",     "beginner",     180, 14000, {},    {TRUE},  {"i1"}),
     Profile("tandem",     "beginner",     230, 10000, {115}, {FALSE}, {}),
     Profile("aff",        "beginner",     220, 14000, {},    {TRUE},  {"i2"}),
     Profile("fun_jump",   "intermediate", 200, 10000, {135}, {},      {}),
     Profile("coach_jump", "advanced",     190, 14000, {},    {},      {}),
     Profile("fun_jump",   "expert",       200, 14000, {},    {},      {}),
     Profile("fun_jump",   "intermediate", 170, 14000, {},    {TRUE},  {}),
     Profile("wingsuit",   "novice",       210, 10000, {0},   {TRUE},  {}) >>

Catalog == { Profiles[i] : i \in 1..Len(Profiles) }

\* the place of a jumper's profile in Profiles
Rank(j) ==
  CHOOSE i \in 1..Len(Profiles) :
    /\ Profiles[i].jumpType = j.jumpType
    /\ Profiles[i].experienceLevel = j.experienceLevel
    /\ Profiles[i].exitAltitude = j.exitAltitude

\* the jumper with the given id and profile
MkJumper(i, p) ==
  [id |-> i, jumpType |-> p.jumpType, experienceLevel |-> p.experienceLevel,
   weight |-> p.weight, exitAltitude |-> p.exitAltitude, fallRate |-> p.fallRate,
   requiresInstructor |-> p.requiresInstructor, instructorId |-> p.instructorId]

----------------------------------------------------------------------------
(* JavaScript numbers that come out of a division: a reduced fraction     *)
(* num/den with den > 0, or NaN, +Infinity, -Infinity                      *)

Finite(n, d) == [kind |-> "finite", num |-> n, den |-> d]
NaN == [kind |-> "NaN", num |-> 0, den |-> 0]
PosInf == [kind |-> "+Infinity", num |-> 1, den |-> 0]
NegInf == [kind |-> "-Infinity", num |-> -1, den |-> 0]

Abs(n) == IF n < 0 THEN -n ELSE n

RECURSIVE Gcd(_, _)
Gcd(a, b) == IF b = 0 THEN a ELSE Gcd(b, a % b)

\* the quotient n / d of two integers, d # 0, in lowest terms
Fraction(n, d) ==
  LET g == Gcd(Abs(n), Abs(d))
      s == IF d < 0 THEN -1 ELSE 1
  IN  Finite((s * n) \div g, (s * d) \div g)

\* the integer n as a number
Number(n) == Finite(n, 1)

\* a / b for integers a, b
JsDiv(a, b) ==
  IF b = 0
    THEN IF a = 0 THEN NaN ELSE IF a > 0 THEN PosInf ELSE NegInf
    ELSE Fraction(a, b)

\* x * k for a number x and a positive integer k
JsMul(x, k) ==
  IF x.kind = "finite" THEN Fraction(x.num * k, x.den) ELSE x

\* JsGreater written as "not x <= k", which NaN satisfies
JsNotLessOrEqual(x, k) ==
  CASE x.kind = "finite" -> x.num > k * x.den
    [] x.kind = "-Infinity" -> FALSE
    [] OTHER -> TRUE

\* JsGreater testing >= instead of >
JsGreaterOrEqual(x, k) ==
  CASE x.kind = "finite" -> x.num >= k * x.den
    [] x.kind = "+Infinity" -> TRUE
    [] OTHER -> FALSE

\* x > k for a number x and an integer k; every comparison with NaN is false
JsGreater(x, k) ==
  CASE x.kind = "finite" -> x.num > k * x.den
    [] x.kind = "+Infinity" -> TRUE
    [] OTHER -> FALSE

----------------------------------------------------------------------------
(* Array helpers *)

Value(opt) == CHOOSE v \in opt : TRUE

\* truthiness of an optional number (undefined and 0 are falsy) and of an
\* optional boolean (undefined and false are falsy)
TruthyNumber(opt) == opt # {} /\ Value(opt) # 0

TruthyBoolean(opt) == opt = {TRUE}

\* RelIndex taking a negative index for 0
RelIndexClamped(k, n) == IF k < 0 THEN 0 ELSE IF k > n THEN n ELSE k

\* Array.prototype.slice(start, end): negative indices count from the end
RelIndex(k, n) == IF k < 0 THEN (IF n + k < 0 THEN 0 ELSE n + k)
                  ELSE IF k > n THEN n ELSE k

Slice(s, start, end) ==
  LET n == Len(s)
      from == RelIndex(start, n)
      to == RelIndex(end, n)
  IN  IF to <= from THEN <<>> ELSE SubSeq(s, from + 1, to)

\* SliceFrom starting one element late
SliceFromNext(s, start) == Slice(s, start + 1, Len(s))

\* Array.prototype.slice(start)
SliceFrom(s, start) == Slice(s, start, Len(s))

RECURSIVE SumSeq(_)
SumSeq(s) == IF s = <<>> THEN 0 ELSE Head(s) + SumSeq(Tail(s))

----------------------------------------------------------------------------
(* calculateExitOrder: the comparator *)

getDefaultFallRate(jumper) ==
  CASE jumper.jumpType = "tandem" -> 120
    [] jumper.jumpType = "aff" -> 110
    [] jumper.jumpType = "fun_jump" ->
         IF jumper.experienceLevel = "expert" THEN 140 ELSE 130
    [] jumper.jumpType = "coach_jump" -> 125
    [] OTHER -> 130

\* a.fallRate || getDefaultFallRate(a)
EffectiveFallRate(a) ==
  IF TruthyNumber(a.fallRate) THEN Value(a.fallRate) ELSE getDefaultFallRate(a)

\* ExitCompare without its second rule (b tandem, a not)
ExitCompareOneSided(a, b) ==
  IF a.jumpType = "tandem" /\ b.jumpType # "tandem" THEN -1
  ELSE IF a.jumpType = "aff" /\ b.jumpType # "aff" /\ b.jumpType # "tandem" THEN -1
  ELSE IF b.jumpType = "aff" /\ a.jumpType # "aff" /\ a.jumpType # "tandem" THEN 1
  ELSE IF a.jumpType = b.jumpType
    THEN IF a.exitAltitude # b.exitAltitude
           THEN b.exitAltitude - a.exitAltitude
           ELSE EffectiveFallRate(a) - EffectiveFallRate(b)
  ELSE 0

\* ExitCompare without its two aff rules
ExitCompareNoAff(a, b) ==
  IF a.jumpType = "tandem" /\ b.jumpType # "tandem" THEN -1
  ELSE IF b.jumpType = "tandem" /\ a.jumpType # "tandem" THEN 1
  ELSE IF a.jumpType = b.jumpType
    THEN IF a.exitAltitude # b.exitAltitude
           THEN b.exitAltitude - a.exitAltitude
           ELSE EffectiveFallRate(a) - EffectiveFallRate(b)
  ELSE 0

\* the comparator handed to sort in calculateExitOrder
ExitCompare(a, b) ==
  IF a.jumpType = "tandem" /\ b.jumpType # "tandem" THEN -1
  ELSE IF b.jumpType = "tandem" /\ a.jumpType # "tandem" THEN 1
  ELSE IF a.jumpType = "aff" /\ b.jumpType # "aff" /\ b.jumpType # "tandem" THEN -1
  ELSE IF b.jumpType = "aff" /\ a.jumpType # "aff" /\ a.jumpType # "tandem" THEN 1
  ELSE IF a.jumpType = b.jumpType
    THEN IF a.exitAltitude # b.exitAltitude
           THEN b.exitAltitude - a.exitAltitude
           ELSE EffectiveFallRate(a) - EffectiveFallRate(b)
  ELSE 0

----------------------------------------------------------------------------
(* optimizeCapacity: the priority score and its comparator *)

\* getJumperPriority with the breaks of the experience switch left out
getJumperPriorityFallThrough(jumper) ==
  (CASE jumper.jumpType = "tandem" -> 100
     [] jumper.jumpType = "aff" -> 80
     [] jumper.jumpType = "coach_jump" -> 60
     [] jumper.jumpType = "fun_jump" -> 40
     [] OTHER -> 0)
  + (IF TruthyBoolean(jumper.requiresInstructor) THEN 20 ELSE 0)
  + (CASE jumper.experienceLevel = "beginner" -> 15 + 10 + 5
       [] jumper.experienceLevel = "intermediate" -> 10 + 5
       [] jumper.experienceLevel = "advanced" -> 5
       [] OTHER -> 0)

getJumperPriority(jumper) ==
  (CASE jumper.jumpType = "tandem" -> 100
     [] jumper.jumpType = "aff" -> 80
     [] jumper.jumpType = "coach_jump" -> 60
     [] jumper.jumpType = "fun_jump" -> 40
     [] OTHER -> 0)
  + (IF TruthyBoolean(jumper.requiresInstructor) THEN 20 ELSE 0)
  + (CASE jumper.experienceLevel = "beginner" -> 15
       [] jumper.experienceLevel = "intermediate" -> 10
       [] jumper.experienceLevel = "advanced" -> 5
       [] OTHER -> 0)

\* PriorityCompare with the operands exchanged
PriorityCompareAscending(a, b) == getJumperPriority(a) - getJumperPriority(b)

\* the comparator handed to sort in optimizeCapacity
PriorityCompare(a, b) == getJumperPriority(b) - getJumperPriority(a)

----------------------------------------------------------------------------
(* Array.prototype.sort.  The language fixes the result only for a         *)
(* consistent comparator (then it is the stable sorted order); otherwise   *)
(* the order is whatever the engine's algorithm yields.  The engines in    *)
(* use run a stable insertion sort, a binary insertion sort or a merge     *)
(* sort on arrays of this size, so a sort is a choice among the three.     *)

Compare(cmp, a, b) ==
  IF cmp = "exit" THEN ExitCompare(a, b) ELSE PriorityCompare(a, b)

\* insertion sort: x moves left past every element that compares greater
RECURSIVE InsertLinear(_, _, _)
InsertLinear(cmp, sorted, x) ==
  IF sorted = <<>> THEN <<x>>
  ELSE LET n == Len(sorted)
       IN  IF Compare(cmp, sorted[n], x) > 0
             THEN Append(InsertLinear(cmp, SubSeq(sorted, 1, n - 1), x), sorted[n])
             ELSE Append(sorted, x)

\* binary insertion sort: the insertion point is found by bisection of
\* sorted[left+1 .. right]
RECURSIVE BinarySearch(_, _, _, _, _)
BinarySearch(cmp, sorted, x, left, right) ==
  IF left >= right THEN left
  ELSE LET mid == left + ((right - left) \div 2)
       IN  IF Compare(cmp, x, sorted[mid + 1]) < 0
             THEN BinarySearch(cmp, sorted, x, left, mid)
             ELSE BinarySearch(cmp, sorted, x, mid + 1, right)

InsertBinary(cmp, sorted, x) ==
  LET at == BinarySearch(cmp, sorted, x, 0, Len(sorted))
  IN  SubSeq(sorted, 1, at) \o <<x>> \o SubSeq(sorted, at + 1, Len(sorted))

RECURSIVE InsertionSort(_, _, _)
InsertionSort(cmp, binary, s) ==
  IF s = <<>> THEN <<>>
  ELSE LET n == Len(s)
           sorted == InsertionSort(cmp, binary, SubSeq(s, 1, n - 1))
       IN  IF binary THEN InsertBinary(cmp, sorted, s[n])
                     ELSE InsertLinear(cmp, sorted, s[n])

\* merge sort: the left element is taken unless the right one compares smaller
RECURSIVE Merge(_, _, _)
\* Merge that forgets the rest of the right run when the left one is used up
MergeLosing(cmp, l, r) ==
  IF l = <<>> THEN <<>>
  ELSE IF r = <<>> THEN l
  ELSE IF Compare(cmp, Head(l), Head(r)) <= 0
    THEN <<Head(l)>> \o Merge(cmp, Tail(l), r)
    ELSE <<Head(r)>> \o Merge(cmp, l, Tail(r))

Merge(cmp, l, r) ==
  IF l = <<>> THEN r
  ELSE IF r = <<>> THEN l
  ELSE IF Compare(cmp, Head(l), Head(r)) <= 0
    THEN <<Head(l)>> \o Merge(cmp, Tail(l), r)
    ELSE <<Head(r)>> \o Merge(cmp, l, Tail(r))

RECURSIVE MergeSort(_, _)
MergeSort(cmp, s) ==
  IF Len(s) <= 1 THEN s
  ELSE LET half == Len(s) \div 2
       IN  Merge(cmp, MergeSort(cmp, SubSeq(s, 1, half)),
                      MergeSort(cmp, SubSeq(s, half + 1, Len(s))))

Engines == {"insertion", "binary", "merge"}

\* the caller's array after [...arr].sort(cmp), had the spread been left out:
\* sort works in place
CallerArraySortedInPlace(engine, cmp, arr) ==
  CASE engine = "insertion" -> InsertionSort(cmp, FALSE, arr)
    [] engine = "binary" -> InsertionSort(cmp, TRUE, arr)
    [] engine = "merge" -> MergeSort(cmp, arr)

\* the caller's array after [...arr].sort(cmp): the spread makes a new array
\* and sort works in place on that one
CallerArray(engine, cmp, arr) == arr

\* [...s].sort(cmp) on the given engine
Sort(engine, cmp, s) ==
  CASE engine = "insertion" -> InsertionSort(cmp, FALSE, s)
    [] engine = "binary" -> InsertionSort(cmp, TRUE, s)
    [] engine = "merge" -> MergeSort(cmp, s)

----------------------------------------------------------------------------
(* createJumpGroups and the timing estimate *)

\* a group may not grow beyond this many jumpers
MaxGroupSize == 8

\* calculateGroupTime charging 10 seconds for the first jumper too
calculateGroupTimePerJumper(group) == 60 + Len(group) * 10

calculateGroupTime(group) == 60 + (Len(group) - 1) * 10

MkGroup(cur) ==
  [jumpers |-> cur.currentGroup, exitAltitude |-> cur.currentAltitude,
   groupType |-> cur.currentType,
   estimatedTime |-> calculateGroupTime(cur.currentGroup)]

\* GroupKey without the altitude
GroupKeyTypeOnly(jumper) == jumper.jumpType

\* `${jumper.jumpType}-${jumper.exitAltitude}`
GroupKey(jumper) ==
  jumper.jumpType \o "-" \o ToString(jumper.exitAltitude)

\* the loop's locals before the first iteration
GroupStart ==
  [groups |-> <<>>, currentGroup |-> <<>>, currentAltitude |-> 0,
   currentType |-> ""]

\* GroupFull testing > instead of >=
GroupFullOffByOne(cur) == Len(cur.currentGroup) > MaxGroupSize

\* currentGroup.length >= 8
GroupFull(cur) == Len(cur.currentGroup) >= MaxGroupSize

\* one iteration of the loop over the sorted jumpers
GroupStep(cur, jumper) ==
  IF cur.currentType # GroupKey(jumper) \/ GroupFull(cur)
    THEN [groups |-> IF Len(cur.currentGroup) > 0
                       THEN Append(cur.groups, MkGroup(cur))
                       ELSE cur.groups,
          currentGroup |-> <<jumper>>,
          currentAltitude |-> jumper.exitAltitude,
          currentType |-> GroupKey(jumper)]
    ELSE [cur EXCEPT !.currentGroup = Append(@, jumper)]

RECURSIVE GroupLoop(_, _)
GroupLoop(cur, rest) ==
  IF rest = <<>> THEN cur ELSE GroupLoop(GroupStep(cur, Head(rest)), Tail(rest))

\* GroupFinish without the push of the final group
GroupFinishDropping(cur) == cur.groups

\* the final group is added after the loop
GroupFinish(cur) ==
  IF Len(cur.currentGroup) > 0 THEN Append(cur.groups, MkGroup(cur)) ELSE cur.groups

createJumpGroups(sorted) == GroupFinish(GroupLoop(GroupStart, sorted))

ClimbTime == 20 * 60

\* calculateTotalTime with a transition after every group
calculateTotalTimeEveryGroup(groups) ==
  LET groupTimes == SumSeq([i \in 1..Len(groups) |-> groups[i].estimatedTime])
      transitionTime == Len(groups) * 30
  IN  ClimbTime + groupTimes + transitionTime

calculateTotalTime(groups) ==
  LET groupTimes == SumSeq([i \in 1..Len(groups) |-> groups[i].estimatedTime])
      transitionTime == (Len(groups) - 1) * 30
  IN  ClimbTime + groupTimes + transitionTime

----------------------------------------------------------------------------
(* generateRecommendations *)

SplitTandems == "Consider splitting tandems across multiple loads for safety"
AffCoverage == "High number of AFF students - ensure adequate instructor coverage"
ConsolidateGroups == "Multiple altitude changes - consider consolidating groups"
InstructorCapacity ==
  "Instructor capacity may be exceeded - consider additional instructors"
HeavyLoad == "Heavy load - verify aircraft weight and balance limits"

IsTandem(j) == j.jumpType = "tandem"
IsAff(j) == j.jumpType = "aff"
\* NeedsInstructor derived from the jumpType
NeedsInstructorByType(j) == j.jumpType \in {"tandem", "aff"}

\* the filter (j) => j.requiresInstructor
NeedsInstructor(j) == TruthyBoolean(j.requiresInstructor)

\* Exceeds testing >= instead of >
ReachesThreshold(count, threshold) == count >= threshold

\* the test of the three count rules: count > threshold
Exceeds(count, threshold) == count > threshold

\* generateRecommendations evaluating the weight rule first
generateRecommendationsWeightFirst(groups, allJumpers) ==
  LET tandemCount == Len(SelectSeq(allJumpers, IsTandem))
      affCount == Len(SelectSeq(allJumpers, IsAff))
      instructorRequiredJumpers == SelectSeq(allJumpers, NeedsInstructor)
      uniqueInstructors ==
        { instructorRequiredJumpers[i].instructorId :
            i \in 1..Len(instructorRequiredJumpers) }
      totalWeight == SumSeq([i \in 1..Len(allJumpers) |-> allJumpers[i].weight])
      avgWeight == JsDiv(totalWeight, Len(allJumpers))
  IN  (IF JsGreater(avgWeight, 200) THEN <<HeavyLoad>> ELSE <<>>)
      \o (IF Exceeds(tandemCount, 6) THEN <<SplitTandems>> ELSE <<>>)
      \o (IF Exceeds(affCount, 4) THEN <<AffCoverage>> ELSE <<>>)
      \o (IF Exceeds(Len(groups), 5) THEN <<ConsolidateGroups>> ELSE <<>>)
      \o (IF Len(instructorRequiredJumpers) > Cardinality(uniqueInstructors) * 2
            THEN <<InstructorCapacity>> ELSE <<>>)

generateRecommendations(groups, allJumpers) ==
  LET tandemCount == Len(SelectSeq(allJumpers, IsTandem))
      affCount == Len(SelectSeq(allJumpers, IsAff))
      instructorRequiredJumpers == SelectSeq(allJumpers, NeedsInstructor)
      \* a Set of the instructorId values, undefined being one of them
      uniqueInstructors ==
        { instructorRequiredJumpers[i].instructorId :
            i \in 1..Len(instructorRequiredJumpers) }
      totalWeight == SumSeq([i \in 1..Len(allJumpers) |-> allJumpers[i].weight])
      avgWeight == JsDiv(totalWeight, Len(allJumpers))
  IN  (IF Exceeds(tandemCount, 6) THEN <<SplitTandems>> ELSE <<>>)
      \o (IF Exceeds(affCount, 4) THEN <<AffCoverage>> ELSE <<>>)
      \o (IF Exceeds(Len(groups), 5) THEN <<ConsolidateGroups>> ELSE <<>>)
      \o (IF Len(instructorRequiredJumpers) > Cardinality(uniqueInstructors) * 2
            THEN <<InstructorCapacity>> ELSE <<>>)
      \o (IF JsGreater(avgWeight, 200) THEN <<HeavyLoad>> ELSE <<>>)

----------------------------------------------------------------------------
(* The two entry points *)

\* calculateExitOrder giving up the order when an advisory is emitted
calculateExitOrderBlocking(engine, roster) ==
  LET sortedJumpers == Sort(engine, "exit", roster)
      groups == createJumpGroups(sortedJumpers)
      recommendations == generateRecommendations(groups, roster)
      kept == IF recommendations = <<>> THEN sortedJumpers ELSE roster
  IN  [exitOrder |-> kept,
       groups |-> createJumpGroups(kept),
       totalTime |-> calculateTotalTime(createJumpGroups(kept)),
       recommendations |-> recommendations]

calculateExitOrder(engine, roster) ==
  LET sortedJumpers == Sort(engine, "exit", roster)
      groups == createJumpGroups(sortedJumpers)
  IN  [exitOrder |-> sortedJumpers,
       groups |-> groups,
       totalTime |-> calculateTotalTime(groups),
       recommendations |-> generateRecommendations(groups, roster)]

\* Utilization without the factor 100
UtilizationRatio(selectedCount, availableSlots) ==
  JsDiv(selectedCount, availableSlots)

\* selectedJumpers.length / availableSlots * 100
Utilization(selectedCount, availableSlots) ==
  JsMul(JsDiv(selectedCount, availableSlots), 100)

optimizeCapacity(engine, availableSlots, potentialJumpers) ==
  LET prioritizedJumpers == Sort(engine, "priority", potentialJumpers)
      selectedJumpers == Slice(prioritizedJumpers, 0, availableSlots)
      waitingList == SliceFrom(prioritizedJumpers, availableSlots)
  IN  [availableSlots |-> availableSlots,
       selectedJumpers |-> selectedJumpers,
       waitingList |-> waitingList,
       utilizationScore |-> Utilization(Len(selectedJumpers), availableSlots)]

----------------------------------------------------------------------------
(* convertToOptimizationFormat of the LoadOptimizer component: roster      *)
(* entries as the application holds them (any[]) become Jumpers.  A field  *)
(* of an entry is {} when the entry does not have it.                      *)

Entry(id, name, jt, el, w, alt, fr, ins) ==
  [id |-> id, jumper_name |-> name, jump_type |-> jt, experience_level |-> el,
   weight |-> w, exit_altitude |-> alt, fall_rate |-> fr, instructor_id |-> ins]

Entries ==
  { Entry({"a"}, {"Ann"}, {"tandem"},     {"beginner"}, {190}, {12000}, {118}, {"i1"}),
    Entry({},    {},      {},             {},           {},    {},      {},    {}),
    Entry({"c"}, {},      {"aff"},        {},           {},    {13000}, {},    {"i2"}),
    Entry({""},  {"Dan"}, {"coach_jump"}, {"expert"},   {0},   {0},     {0},   {}),
    Entry({},    {"Eve"}, {"wingsuit"},   {"advanced"}, {205}, {},      {},    {}) }

\* truthiness of an optional string (undefined and "" are falsy)
TruthyString(opt) == opt # {} /\ Value(opt) # ""

\* opt || fallback
StringOr(opt, fallback) == IF TruthyString(opt) THEN Value(opt) ELSE fallback

NumberOr(opt, fallback) == IF TruthyNumber(opt) THEN Value(opt) ELSE fallback

\* ConvertEntry numbering the synthesized id like the name, from 1
ConvertEntryOneBased(jumper, index) ==
  [id |-> StringOr(jumper.id, "jumper-" \o ToString(index + 1)),
   name |-> StringOr(jumper.jumper_name, "Jumper " \o ToString(index + 1)),
   jumpType |-> StringOr(jumper.jump_type, "fun_jump"),
   experienceLevel |-> StringOr(jumper.experience_level, "intermediate"),
   weight |-> NumberOr(jumper.weight, 180),
   exitAltitude |-> NumberOr(jumper.exit_altitude, 14000),
   fallRate |-> jumper.fall_rate,
   requiresInstructor |->
     {jumper.jump_type = {"tandem"} \/ jumper.jump_type = {"aff"}},
   instructorId |-> jumper.instructor_id]

\* the callback of jumpers.map, index counting from 0
ConvertEntry(jumper, index) ==
  [id |-> StringOr(jumper.id, "jumper-" \o ToString(index)),
   name |-> StringOr(jumper.jumper_name, "Jumper " \o ToString(index + 1)),
   jumpType |-> StringOr(jumper.jump_type, "fun_jump"),
   experienceLevel |-> StringOr(jumper.experience_level, "intermediate"),
   weight |-> NumberOr(jumper.weight, 180),
   exitAltitude |-> NumberOr(jumper.exit_altitude, 14000),
   fallRate |-> jumper.fall_rate,
   requiresInstructor |->
     {jumper.jump_type = {"tandem"} \/ jumper.jump_type = {"aff"}},
   instructorId |-> jumper.instructor_id]

convertToOptimizationFormat(entries) ==
  [i \in 1..Len(entries) |-> ConvertEntry(entries[i], i - 1)]

----------------------------------------------------------------------------
(* The state machine: a caller builds a roster and calls the engine on it. *)
(* load and alloc hold the value returned by the call, {} before it.       *)

Slots == (0 - MaxNegSlots)..MaxSlots

Init ==
  /\ jumpers = <<>>
  /\ pc = "roster"
  /\ load = {}
  /\ alloc = {}
  /\ score = {}
  /\ currentJumpers = <<>>
  /\ converted = {}
  /\ optimization = {}
  /\ isOptimizing = FALSE
  /\ inFlight = {}
  /\ applied = {}

\* the caller books a jumper of any profile
AddJumper(p) ==
  /\ pc = "roster"
  /\ Len(jumpers) < MaxMixed
  /\ jumpers' = Append(jumpers, MkJumper(Len(jumpers) + 1, p))
  /\ UNCHANGED <<componentVars, pc, load, alloc, score, currentJumpers, converted>>

\* the caller books one more jumper with the profile of the last one
AddSame ==
  /\ pc = "roster"
  /\ jumpers # <<>>
  /\ Len(jumpers) < MaxRoster
  /\ jumpers' = Append(jumpers, [jumpers[Len(jumpers)] EXCEPT !.id =
                                   Len(jumpers) + 1])
  /\ UNCHANGED <<componentVars, pc, load, alloc, score, currentJumpers, converted>>

\* the caller books a jumper of a profile that comes later in Profiles than
\* every profile booked so far
AddDistinct(p) ==
  /\ pc = "roster"
  /\ \A i \in 1..Len(jumpers) : Rank(jumpers[i]) < Rank(p)
  /\ \A i \in 1..(Len(jumpers) - 1) : Rank(jumpers[i]) < Rank(jumpers[i + 1])
  /\ jumpers' = Append(jumpers, MkJumper(Len(jumpers) + 1, p))
  /\ UNCHANGED <<componentVars, pc, load, alloc, score, currentJumpers, converted>>

CalculateExitOrder(engine) ==
  /\ pc = "roster"
  /\ load' = {calculateExitOrder(engine, jumpers)}
  /\ jumpers' = CallerArray(engine, "exit", jumpers)
  /\ pc' = "ordered"
  /\ UNCHANGED <<componentVars, alloc, score, currentJumpers, converted>>

OptimizeCapacity(engine, availableSlots) ==
  /\ pc = "roster"
  /\ alloc' = {optimizeCapacity(engine, availableSlots, jumpers)}
  /\ jumpers' = CallerArray(engine, "priority", jumpers)
  /\ pc' = "allocated"
  /\ UNCHANGED <<componentVars, load, score, currentJumpers, converted>>

\* getJumperPriority applied to the jumper booked last
GetJumperPriority ==
  /\ pc = "roster"
  /\ jumpers # <<>>
  /\ score' = {[jumper |-> jumpers[Len(jumpers)],
                priority |-> getJumperPriority(jumpers[Len(jumpers)])]}
  /\ pc' = "scored"
  /\ UNCHANGED <<componentVars, jumpers, load, alloc, currentJumpers, converted>>

\* the component is handed one more roster entry
AddEntry(e) ==
  /\ pc = "entries" \/ (pc = "roster" /\ jumpers = <<>>)
  /\ Len(currentJumpers) < MaxEntries
  /\ currentJumpers' = Append(currentJumpers, e)
  /\ pc' = "entries"
  /\ UNCHANGED <<componentVars, jumpers, load, alloc, score, converted>>

ConvertToOptimizationFormat ==
  /\ pc = "entries" \/ (pc = "roster" /\ jumpers = <<>>)
  /\ converted' = {convertToOptimizationFormat(currentJumpers)}
  /\ pc' = "converted"
  /\ UNCHANGED <<componentVars, jumpers, load, alloc, score, currentJumpers>>

Next ==
  \/ \E p \in Catalog : AddJumper(p)
  \/ AddSame
  \/ \E p \in Catalog : AddDistinct(p)
  \/ GetJumperPriority
  \/ \E e \in Entries : AddEntry(e)
  \/ ConvertToOptimizationFormat
  \/ \E engine \in Engines : CalculateExitOrder(engine)
  \/ \E engine \in Engines, availableSlots \in Slots :
        OptimizeCapacity(engine, availableSlots)

Spec == Init /\ [][Next]_vars

-----------------------------------------------------------------------------
(* The LoadOptimizer component.  optimization is the useState value, {}    *)
(* for null; isOptimizing is the other useState value; inFlight is {} or   *)
(* holds the roster captured by the run of runOptimization that waits for  *)
(* its timer; applied is {} or holds the argument of the last call of      *)
(* onOptimizationApplied.                                                  *)

\* currentJumpers is any[]: an entry may be null
NullEntry == [null |-> TRUE]

\* the entries handed to the component: those with an id, and null
ComponentEntries == {e \in Entries : TruthyString(e.id)} \cup {NullEntry}

\* jumper.id of a null entry raises a TypeError
Throws(entries) == \E i \in 1..Len(entries) : entries[i] = NullEntry

\* the engine's view of the callers' state
engineVars == <<jumpers, load, alloc, score, converted>>

\* the Optimize button is clicked; it is disabled while loading
RunOptimization ==
  /\ ~isOptimizing
  /\ isOptimizing' = TRUE
  /\ inFlight' = {currentJumpers}
  /\ UNCHANGED <<engineVars, pc, currentJumpers, optimization, applied>>

\* CompleteRun without the finally block
CompleteRunNoFinally(engine) ==
  /\ inFlight # {}
  /\ IF Throws(Value(inFlight))
       THEN UNCHANGED <<optimization, isOptimizing>>
       ELSE /\ optimization' =
                 {calculateExitOrder(engine,
                    convertToOptimizationFormat(Value(inFlight)))}
            /\ isOptimizing' = FALSE
  /\ inFlight' = {}
  /\ UNCHANGED <<engineVars, pc, currentJumpers, applied>>

\* the timer of a run fires: the rest of runOptimization
CompleteRun(engine) ==
  /\ inFlight # {}
  /\ IF Throws(Value(inFlight))
       THEN optimization' = optimization
       ELSE optimization' =
              {calculateExitOrder(engine,
                 convertToOptimizationFormat(Value(inFlight)))}
  /\ isOptimizing' = FALSE
  /\ inFlight' = {}
  /\ UNCHANGED <<engineVars, pc, currentJumpers, applied>>

\* the Reset button: setOptimization(null)
Reset ==
  /\ optimization' = {}
  /\ UNCHANGED <<engineVars, pc, currentJumpers, isOptimizing, inFlight, applied>>

\* applyOptimization calling the callback with whatever is stored
applyOptimizationUnguarded(stored, calls) == {stored}

\* applyOptimization: the calls of onOptimizationApplied after it ran
applyOptimization(stored, calls) == IF stored # {} THEN {stored} ELSE calls

\* the Apply button
Apply ==
  /\ applied' = applyOptimization(optimization, applied)
  /\ UNCHANGED <<engineVars, pc, currentJumpers, optimization, isOptimizing,
                 inFlight>>

ComponentNext ==
  \/ \E e \in ComponentEntries : AddEntry(e)
  \/ RunOptimization
  \/ \E engine \in Engines : CompleteRun(engine)
  \/ Reset
  \/ Apply

ComponentSpec == Init /\ [][ComponentNext]_vars

\* the step that ends a run: under ComponentNext, a step of CompleteRun
TimerFires == inFlight # {} /\ inFlight' = {}

\* a timer that was set fires, and the run continues to its end
FairComponentSpec == ComponentSpec /\ WF_inFlight(TimerFires)

----------------------------------------------------------------------------
(* Properties *)

Occurrences(s, x) == Cardinality({i \in 1..Len(s) : s[i] = x})

\* s and t hold the same jumpers the same number of times
Permutation(s, t) ==
  /\ Len(s) = Len(t)
  /\ \A i \in 1..Len(s) : Occurrences(s, s[i]) = Occurrences(t, s[i])

Contains(s, x) == \E i \in 1..Len(s) : s[i] = x

RECURSIVE Flatten(_)
Flatten(groups) ==
  IF groups = <<>> THEN <<>> ELSE Head(groups).jumpers \o Flatten(Tail(groups))

Min(a, b) == IF a <= b THEN a ELSE b

\* C1: the exit order returned by calculateExitOrder is a permutation of the
\* roster: same length, same jumpers, none dropped or duplicated.
ExitOrderIsPermutation ==
  \A r \in load : Permutation(r.exitOrder, jumpers)

\* a roster of at least three jumpers that the sort has reordered
ExitOrderReordered ==
  \E r \in load : Len(jumpers) >= 3 /\ r.exitOrder # jumpers

\* C2: in the exit order every tandem jumper stands before every jumper that
\* is not a tandem.
TandemsFirst ==
  \A r \in load : \A i, j \in 1..Len(r.exitOrder) :
    IsTandem(r.exitOrder[i]) /\ ~IsTandem(r.exitOrder[j]) => i < j

\* a roster in which a non-tandem was booked before a tandem has been ordered
TandemMovedForward ==
  \E r \in load : \E i, j \in 1..Len(jumpers) :
    i < j /\ ~IsTandem(jumpers[i]) /\ IsTandem(jumpers[j])

\* C3: the groups' jumpers, concatenated in order, are the exit order, and no
\* group is empty.
GroupsCoverExitOrder ==
  \A r \in load :
    /\ Flatten(r.groups) = r.exitOrder
    /\ \A g \in 1..Len(r.groups) : r.groups[g].jumpers # <<>>

\* a result of several groups, one of them of several jumpers
SeveralGroups ==
  \E r \in load :
    /\ Len(r.groups) >= 3
    /\ \E g \in 1..Len(r.groups) : Len(r.groups[g].jumpers) >= 2

\* C4: no group holds more than 8 jumpers.
GroupSizeCapped ==
  \A r \in load : \A g \in 1..Len(r.groups) : Len(r.groups[g].jumpers) <= 8

\* more than 8 jumpers of one type and altitude were split: a full group of 8
\* is followed by a group of the same type
FullGroupSplit ==
  \E r \in load : \E g \in 1..(Len(r.groups) - 1) :
    /\ Len(r.groups[g].jumpers) = 8
    /\ r.groups[g + 1].groupType = r.groups[g].groupType

\* C5: for an empty roster calculateExitOrder returns a total time of exactly
\* 1200, the climb time alone.
EmptyRosterTotalTime ==
  \A r \in load : jumpers = <<>> => r.totalTime = 1200

\* C6: for an empty roster calculateExitOrder returns an empty exit order, no
\* groups and no recommendations.
EmptyRosterEmptyResult ==
  \A r \in load : jumpers = <<>> =>
    r.exitOrder = <<>> /\ r.groups = <<>> /\ r.recommendations = <<>>

\* calculateExitOrder has returned for the empty roster
EmptyRosterOrdered == pc = "ordered" /\ jumpers = <<>> /\ load # {}

\* C7: with 0 available seats optimizeCapacity selects nobody, waitlists every
\* candidate and reports a utilization score of 0.
ZeroSeatsZeroUtilization ==
  \A a \in alloc : a.availableSlots = 0 =>
    /\ a.selectedJumpers = <<>>
    /\ Permutation(a.waitingList, jumpers)
    /\ a.utilizationScore = Number(0)

\* C8: for a seat count >= 0 every selected jumper scores at least as high as
\* every waitlisted one, and of two candidates of equal score the earlier in
\* the input is never waitlisted while the later is selected.
SelectionByPriority ==
  \A a \in alloc : a.availableSlots >= 0 =>
    /\ \A i \in 1..Len(a.selectedJumpers), j \in 1..Len(a.waitingList) :
         getJumperPriority(a.selectedJumpers[i])
           >= getJumperPriority(a.waitingList[j])
    /\ \A p, q \in 1..Len(jumpers) :
         p < q /\ getJumperPriority(jumpers[p]) = getJumperPriority(jumpers[q])
           => ~(Contains(a.waitingList, jumpers[p])
                  /\ Contains(a.selectedJumpers, jumpers[q]))

\* a tie was broken: of two candidates of equal score and different type the
\* earlier is selected and the later waitlisted, after a lower-scored
\* candidate booked before both was passed over
TieBrokenByInputOrder ==
  \E a \in alloc : \E o, p, q \in 1..Len(jumpers) :
    /\ o < p /\ p < q
    /\ getJumperPriority(jumpers[o]) < getJumperPriority(jumpers[p])
    /\ getJumperPriority(jumpers[p]) = getJumperPriority(jumpers[q])
    /\ jumpers[p].jumpType # jumpers[q].jumpType
    /\ Contains(a.selectedJumpers, jumpers[p])
    /\ Contains(a.waitingList, jumpers[q])
    /\ Contains(a.waitingList, jumpers[o])

\* C9: for a seat count S >= 0 and a pool of n candidates, exactly min(S, n)
\* are selected, and the selected followed by the waitlisted are a permutation
\* of the pool.
SelectionPartitionsPool ==
  \A a \in alloc : a.availableSlots >= 0 =>
    /\ Len(a.selectedJumpers) = Min(a.availableSlots, Len(jumpers))
    /\ Permutation(a.selectedJumpers \o a.waitingList, jumpers)

\* fewer seats than candidates: some are selected, some waitlisted, and the
\* selection is not the input's prefix
PoolSplit ==
  \E a \in alloc :
    /\ a.availableSlots >= 2
    /\ Len(jumpers) > a.availableSlots
    /\ a.waitingList # <<>>
    /\ a.selectedJumpers # SubSeq(jumpers, 1, a.availableSlots)

\* C10: for a seat count S >= 1 the utilization score is
\* 100 * selectedJumpers.length / S, lies between 0 and 100, and is 100
\* exactly when the pool has at least S candidates.
UtilizationIsPercentage ==
  \A a \in alloc : a.availableSlots >= 1 =>
    /\ a.utilizationScore = Fraction(100 * Len(a.selectedJumpers), a.availableSlots)
    /\ a.utilizationScore.kind = "finite"
    /\ 0 <= a.utilizationScore.num
    /\ a.utilizationScore.num <= 100 * a.utilizationScore.den
    /\ (a.utilizationScore = Number(100) <=> Len(jumpers) >= a.availableSlots)

\* seats partly filled: the score is a proper fraction of 100
SeatsPartlyFilled ==
  \E a \in alloc :
    /\ a.availableSlots = 3
    /\ Len(a.selectedJumpers) = 2
    /\ a.utilizationScore = Finite(200, 3)

\* the entry of a table of contributions, 0 for a key the table does not have
Contribution(table, key) == IF key \in DOMAIN table THEN table[key] ELSE 0

JumpTypeBase == [tandem |-> 100, aff |-> 80, coach_jump |-> 60, fun_jump |-> 40]

ExperienceBonus == [beginner |-> 15, intermediate |-> 10, advanced |-> 5, expert |-> 0]

\* C11: the priority score is the jumpType base (0 for an unrecognized type)
\* plus 20 if requiresInstructor is true plus the experienceLevel bonus (0 for
\* an unrecognized level).
PriorityIsSumOfContributions ==
  \A s \in score :
    s.priority = Contribution(JumpTypeBase, s.jumper.jumpType)
                 + (IF s.jumper.requiresInstructor = {TRUE} THEN 20 ELSE 0)
                 + Contribution(ExperienceBonus, s.jumper.experienceLevel)

\* a tandem beginner without the instructor flag scored 115
FlaglessTandemScored ==
  \E s \in score :
    /\ s.jumper.jumpType = "tandem"
    /\ s.jumper.experienceLevel = "beginner"
    /\ s.jumper.requiresInstructor = {FALSE}
    /\ s.priority = 115

\* the place of jumper x in s
Position(s, x) == CHOOSE i \in 1..Len(s) : s[i] = x

\* the comparison rule does not discriminate a and b
SameSortKey(a, b) ==
  /\ a.jumpType = b.jumpType
  /\ a.exitAltitude = b.exitAltitude
  /\ EffectiveFallRate(a) = EffectiveFallRate(b)

\* C12: two jumpers of the same jumpType, exitAltitude and effective fall rate
\* stand in the exit order as they stood in the roster.
ExitOrderStable ==
  \A r \in load : \A p, q \in 1..Len(jumpers) :
    p < q /\ SameSortKey(jumpers[p], jumpers[q])
      => Position(r.exitOrder, jumpers[p]) < Position(r.exitOrder, jumpers[q])

\* the number of jumpers of the roster of the given jumpType
CountOfType(roster, jt) == Cardinality({i \in 1..Len(roster) : roster[i].jumpType = jt})

\* C13: the split-tandems warning is present iff the roster has more than 6
\* tandems, the AFF-coverage warning iff it has more than 4 aff jumpers, the
\* consolidate-groups warning iff the result has more than 5 groups.
CountWarningsAboveThreshold ==
  \A r \in load :
    /\ Contains(r.recommendations, SplitTandems) <=> CountOfType(jumpers, "tandem") >= 7
    /\ Contains(r.recommendations, AffCoverage) <=> CountOfType(jumpers, "aff") >= 5
    /\ Contains(r.recommendations, ConsolidateGroups) <=> Len(r.groups) >= 6

\* exactly 7 tandems draw the split-tandems warning
SevenTandemsWarned ==
  \E r \in load :
    /\ CountOfType(jumpers, "tandem") = 7
    /\ Contains(r.recommendations, SplitTandems)

\* C14: for a non-empty roster the heavy-load warning is present iff the sum
\* of the weights is greater than 200 times the roster size.
HeavyLoadAboveMean200 ==
  \A r \in load : jumpers # <<>> =>
    (Contains(r.recommendations, HeavyLoad)
       <=> SumSeq([i \in 1..Len(jumpers) |-> jumpers[i].weight]) > 200 * Len(jumpers))

\* a roster of unequal weights whose mean is exactly 200 drew no warning
MeanExactly200 ==
  \E r \in load :
    /\ Len(jumpers) >= 2
    /\ jumpers[1].weight # 200
    /\ SumSeq([i \in 1..Len(jumpers) |-> jumpers[i].weight]) = 200 * Len(jumpers)
    /\ ~Contains(r.recommendations, HeavyLoad)

HigherAltitudeFirst ==
  \A r \in load : \A i, j \in 1..Len(r.exitOrder) :
    /\ r.exitOrder[i].jumpType = r.exitOrder[j].jumpType
    /\ r.exitOrder[i].exitAltitude > r.exitOrder[j].exitAltitude
    => i < j

\* fallRate if present, the default otherwise
FallRateOrDefault(j) ==
  IF j.fallRate # {} THEN Value(j.fallRate) ELSE getDefaultFallRate(j)

\* C18: of two jumpers of the same jumpType and exitAltitude the one with the
\* lower effective fall rate (fallRate if present, the default otherwise)
\* stands first in the exit order.
LowerFallRateFirst ==
  \A r \in load : \A i, j \in 1..Len(r.exitOrder) :
    /\ r.exitOrder[i].jumpType = r.exitOrder[j].jumpType
    /\ r.exitOrder[i].exitAltitude = r.exitOrder[j].exitAltitude
    /\ FallRateOrDefault(r.exitOrder[i]) < FallRateOrDefault(r.exitOrder[j])
    => i < j

Sign(n) == IF n < 0 THEN -1 ELSE IF n > 0 THEN 1 ELSE 0

\* C19: on the jumpers of a roster given to calculateExitOrder the comparison
\* rule is antisymmetric and transitive, and its ties are transitive.
ComparatorIsTotalOrder ==
  \A r \in load : \A i, j, k \in 1..Len(jumpers) :
    LET a == jumpers[i]
        b == jumpers[j]
        c == jumpers[k]
    IN  /\ Sign(ExitCompare(a, b)) = 0 - Sign(ExitCompare(b, a))
        /\ ExitCompare(a, b) < 0 /\ ExitCompare(b, c) < 0 => ExitCompare(a, c) < 0
        /\ ExitCompare(a, b) = 0 /\ ExitCompare(b, c) = 0 => ExitCompare(a, c) = 0

\* C20: in the exit order every aff jumper stands before every fun_jump and
\* every coach_jump jumper and after every tandem jumper.
AffBetweenTandemAndRest ==
  \A r \in load : \A i, j \in 1..Len(r.exitOrder) :
    /\ IsAff(r.exitOrder[i]) /\ r.exitOrder[j].jumpType \in {"fun_jump", "coach_jump"}
         => i < j
    /\ IsTandem(r.exitOrder[i]) /\ IsAff(r.exitOrder[j]) => i < j

\* a roster booked as fun or coach jumper, then aff, then tandem has been
\* ordered
AffMovedBetween ==
  \E r \in load :
    /\ Len(jumpers) = 3
    /\ jumpers[1].jumpType \in {"fun_jump", "coach_jump"}
    /\ IsAff(jumpers[2])
    /\ IsTandem(jumpers[3])
    /\ IsAff(r.exitOrder[2])

GroupsHomogeneousAndMaximal ==
  \A r \in load :
    /\ \A g \in 1..Len(r.groups) : \A m \in 1..Len(r.groups[g].jumpers) :
         /\ r.groups[g].jumpers[m].exitAltitude = r.groups[g].exitAltitude
         /\ r.groups[g].groupType =
              r.groups[g].jumpers[m].jumpType \o "-"
                \o ToString(r.groups[g].jumpers[m].exitAltitude)
    /\ \A g \in 1..(Len(r.groups) - 1) :
         r.groups[g].groupType = r.groups[g + 1].groupType
           => Len(r.groups[g].jumpers) = 8

\* a result in which two groups of one jumpType differ in altitude and a
\* third group holds several jumpers
TypeSplitByAltitude ==
  \E r \in load : \E g, h, k \in 1..Len(r.groups) :
    /\ g # h
    /\ r.groups[g].jumpers[1].jumpType = r.groups[h].jumpers[1].jumpType
    /\ r.groups[g].exitAltitude # r.groups[h].exitAltitude
    /\ Len(r.groups[k].jumpers) >= 2

\* C22: a group's estimatedTime is 60 + 10 * (its number of jumpers - 1),
\* between 60 and 130.
GroupTimeFormula ==
  \A r \in load : \A g \in 1..Len(r.groups) :
    /\ r.groups[g].estimatedTime = 50 + 10 * Len(r.groups[g].jumpers)
    /\ r.groups[g].estimatedTime >= 60
    /\ r.groups[g].estimatedTime <= 130

\* a result with a group of one jumper (60) and a group of eight (130)
ShortestAndLongestGroup ==
  \E r \in load : \E g, h \in 1..Len(r.groups) :
    /\ Len(r.groups[g].jumpers) = 1 /\ r.groups[g].estimatedTime = 60
    /\ Len(r.groups[h].jumpers) = 8 /\ r.groups[h].estimatedTime = 130

\* C23: for a result of g >= 1 groups the total time is 1200 plus the groups'
\* estimated times plus 30 * (g - 1).
TotalTimeFormula ==
  \A r \in load : Len(r.groups) >= 1 =>
    r.totalTime = 1170 + SumSeq([g \in 1..Len(r.groups) |->
                                   r.groups[g].estimatedTime + 30])

\* a single group pays no transition, three groups pay two
SingleGroupNoTransition ==
  \E r \in load :
    /\ Len(r.groups) = 1
    /\ r.totalTime = 1200 + r.groups[1].estimatedTime

\* C24: the instructor-capacity warning is present iff R > 2 * U, R being the
\* number of jumpers with requiresInstructor true and U the number of distinct
\* non-null instructorId values among them.
InstructorWarningIffOverCapacity ==
  \A r \in load :
    LET flagged == SelectSeq(r.exitOrder, NeedsInstructor)
        R == Len(flagged)
        U == Cardinality(UNION { flagged[i].instructorId : i \in 1..R })
    IN  Contains(r.recommendations, InstructorCapacity) <=> R > 2 * U

RuleOrder ==
  <<SplitTandems, AffCoverage, ConsolidateGroups, InstructorCapacity, HeavyLoad>>

\* C25: the recommendations are a subsequence of the rule order (split
\* tandems, AFF coverage, consolidate groups, instructor capacity, heavy
\* load): each advisory at most once, none before one of an earlier rule.
RecommendationsInRuleOrder ==
  \A r \in load :
    /\ \A i \in 1..Len(r.recommendations) : Contains(RuleOrder, r.recommendations[i])
    /\ \A i, j \in 1..Len(r.recommendations) :
         i < j => Position(RuleOrder, r.recommendations[i])
                    < Position(RuleOrder, r.recommendations[j])

\* a result carrying the first and the last advisory, in that order
FirstAndLastAdvisory ==
  \E r \in load :
    /\ Len(r.recommendations) >= 2
    /\ r.recommendations[1] = SplitTandems
    /\ r.recommendations[Len(r.recommendations)] = HeavyLoad

\* the roster with the fields the advisories read replaced: weights,
\* instructor flags and instructor assignments in the k-th way
Relabel(roster, k) ==
  [i \in 1..Len(roster) |->
     [roster[i] EXCEPT
        !.weight = 150 + 60 * ((i + k) % 3),
        !.requiresInstructor =
          IF k = 1 THEN {} ELSE IF k = 2 THEN {TRUE} ELSE {(i % 2) = 0},
        !.instructorId = IF k = 3 THEN {"i3"} ELSE {}]]

Relabelings == 1..3

Ids(s) == [i \in 1..Len(s) |-> s[i].id]

\* the partition into groups, by ids
Partition(groups) == [g \in 1..Len(groups) |-> Ids(groups[g].jumpers)]

\* C26: two rosters that differ only in weight, instructorId and
\* requiresInstructor yield the same exit order by ids, the same partition into
\* groups and the same total time, whichever advisories are emitted.
OrderIndependentOfAdvisoryFields ==
  \A r \in load : \A e \in Engines :
    r = calculateExitOrder(e, jumpers) =>
      \A k \in Relabelings :
        LET other == calculateExitOrder(e, Relabel(jumpers, k))
        IN  /\ Ids(other.exitOrder) = Ids(r.exitOrder)
            /\ Partition(other.groups) = Partition(r.groups)
            /\ other.totalTime = r.totalTime

\* a reordered roster with no advisory whose relabeling draws two
AdvisoriesDifferOrderSame ==
  \E r \in load : \E e \in Engines : \E k \in Relabelings :
    /\ r = calculateExitOrder(e, jumpers)
    /\ r.exitOrder # jumpers
    /\ r.recommendations = <<>>
    /\ Len(calculateExitOrder(e, Relabel(jumpers, k)).recommendations) >= 2

\* requiresInstructor is literally true
SuppliedFlag(j) == j.requiresInstructor = {TRUE}

\* C27: requiresInstructor is read as supplied, never derived from jumpType:
\* the capacity check counts exactly the jumpers supplied with the flag true,
\* and the +20 bonus goes to exactly those, so a tandem or aff jumper without
\* the flag gets neither and a flagged fun_jump jumper gets both.
InstructorFlagReadAsSupplied ==
  /\ \A r \in load :
       LET supplied == SelectSeq(r.exitOrder, SuppliedFlag)
           ids == { supplied[i].instructorId : i \in 1..Len(supplied) }
       IN  Contains(r.recommendations, InstructorCapacity)
             <=> Len(supplied) > 2 * Cardinality(ids)
  /\ \A s \in score :
       s.priority - Contribution(JumpTypeBase, s.jumper.jumpType)
                  - Contribution(ExperienceBonus, s.jumper.experienceLevel)
         = IF SuppliedFlag(s.jumper) THEN 20 ELSE 0

\* a roster warned about because of its flagged fun_jump jumpers, while its
\* tandem jumper carries no flag
FlaggedFunJumpsCounted ==
  \E r \in load :
    /\ Contains(r.recommendations, InstructorCapacity)
    /\ \E i \in 1..Len(r.exitOrder) :
         IsTandem(r.exitOrder[i]) /\ ~SuppliedFlag(r.exitOrder[i])
    /\ \A i \in 1..Len(r.exitOrder) :
         SuppliedFlag(r.exitOrder[i]) => r.exitOrder[i].jumpType = "fun_jump"

\* C28: for a negative seat count S and a pool of n candidates,
\* selectedJumpers is the priority-sorted pool minus its last |S| elements
\* (max(n - |S|, 0) jumpers), waitingList is its last min(|S|, n) elements,
\* the two partition the pool, and utilizationScore is <= 0, so
\* selectedJumpers.length exceeds S.
NegativeSeatsDropFromEnd ==
  \A a \in alloc : a.availableSlots < 0 =>
    LET n == Len(jumpers)
        drop == Min(Abs(a.availableSlots), n)
    IN  /\ Len(a.selectedJumpers) = n - drop
        /\ Len(a.waitingList) = drop
        /\ Permutation(a.selectedJumpers \o a.waitingList, jumpers)
        /\ \E e \in Engines :
             a.selectedJumpers \o a.waitingList = Sort(e, "priority", jumpers)
        /\ a.utilizationScore.kind = "finite"
        /\ a.utilizationScore.den > 0
        /\ a.utilizationScore.num <= 0
        /\ Len(a.selectedJumpers) > a.availableSlots

\* one seat short of nothing: all but the last of the sorted pool selected
AllButLastSelected ==
  \E a \in alloc :
    /\ a.availableSlots = -1
    /\ Len(a.selectedJumpers) >= 2
    /\ Len(a.waitingList) = 1
    /\ a.selectedJumpers # SubSeq(jumpers, 1, Len(jumpers) - 1)
    /\ a.utilizationScore.num < 0

\* the results a run over the roster handed so far can have stored
CompletedRuns ==
  { calculateExitOrder(x[1],
      convertToOptimizationFormat(SubSeq(currentJumpers, 1, x[2]))) :
      x \in { y \in Engines \X (0..Len(currentJumpers)) :
                ~Throws(SubSeq(currentJumpers, 1, y[2])) } }

\* C29: onOptimizationApplied is invoked only while a result is stored, and
\* with that result, which a completed run of calculateExitOrder stored; a
\* stored result with no recommendations is a stored result, and Apply with
\* nothing stored calls nothing.
AppliedOnlyStoredResult ==
  /\ [][applied' # applied => optimization # {} /\ applied' = {optimization}]_vars
  /\ []({} \notin applied)
  /\ [](optimization \subseteq CompletedRuns)
  /\ [](\A a \in applied : a \subseteq CompletedRuns)

\* a result without recommendations was applied and then reset
CleanResultAppliedThenReset ==
  /\ optimization = {}
  /\ \E a \in applied : \E r \in a : r.recommendations = <<>>

\* C30: every run eventually clears isOptimizing, also when the computation
\* throws, and a run that completes stores its result whatever Reset did
\* meanwhile, so with a run in flight the stored optimization does not stay
\* empty.
RunsClearAndStore ==
  /\ isOptimizing ~> ~isOptimizing
  /\ inFlight # {} ~> inFlight = {}
  /\ (inFlight # {} /\ ~Throws(Value(inFlight))) ~> optimization # {}
  /\ [][inFlight # {} /\ inFlight' = {} =>
          /\ ~isOptimizing'
          /\ IF Throws(Value(inFlight))
               THEN optimization' = optimization
               ELSE /\ optimization' # {}
                    /\ optimization' \subseteq
                         { calculateExitOrder(e,
                             convertToOptimizationFormat(Value(inFlight))) :
                             e \in Engines }]_vars

\* a run in flight after a result was applied and reset
RunInFlightAfterReset ==
  /\ optimization = {}
  /\ applied # {}
  /\ inFlight # {}
  /\ isOptimizing

====
